---- MODULE Spec2Model ----
(***************************************************************************)
(* A model of vocode/streaming/synthesizer/caching_synthesizer.py:         *)
(* cache_key, AsyncGeneratorWrapper (the stream tee) and                   *)
(* CachingSynthesizer.create_speech / create_synthesis_result_from_bytes,  *)
(* run against an opaque backend synthesizer and an opaque redis store.    *)
(***************************************************************************)
EXTENDS Integers, Sequences, FiniteSets, TLC

(***************************************************************************)
(* Bounds of the model.                                                    *)
(***************************************************************************)
\* longest byte buffer found in the store before the first request
MaxLen == 3
\* largest chunk_size a request asks for
MaxChunkSize == 2
\* most records in one stream of the backend
MaxChunks == 2
\* most operations of the callers in one run: pulls and closes, over all
\* streams, and calls of the pass-through methods
MaxOps == 3
\* most events of the environment in one run: a store call (get, set) that
\* fails, a backend call (create_speech, a pull of its stream) that fails, a
\* change of the backend's configuration
MaxEnvEvents == 1

\* longest text, of the characters of KeyChars, that cache_key is applied to
MaxTextLen == 3

(***************************************************************************)
(* Program constants.                                                      *)
(***************************************************************************)
\* chunk_result.chunk[44:] : the length of a WAV header
WAV_HEADER_LEN == 44
\* cleaned_text[:32]
KEY_TEXT_LEN == 32

(***************************************************************************)
(* Values.  Python's None is encoded as a sequence that no byte string     *)
(* equals (a byte is never negative).                                      *)
(***************************************************************************)
None == << -1 >>

\* The requests of a run, named in the order their create_speech calls start;
\* they ask for the same text.
Requests == {"r1", "r2"}

StartsBefore == [r \in Requests |-> IF r = "r2" THEN {"r1"} ELSE {}]

ChunkSizes == 1..MaxChunkSize

\* Byte buffers an earlier run may have left in the store: 1, 2, ..., n.
Buffers == {[i \in 1..n |-> i] : n \in 0..MaxLen}

\* The header encode_as_wav puts in front of a chunk.
WavHeader == [i \in 1..WAV_HEADER_LEN |-> 0]

Take(s, n) == SubSeq(s, 1, IF Len(s) < n THEN Len(s) ELSE n)

Drop(s, n) == SubSeq(s, n + 1, Len(s))

(***************************************************************************)
(* Texts are sequences of characters.                                      *)
(***************************************************************************)
Text_Hello == <<"H", "e", "l", "l", "o", ",", " ", "W", "o", "r", "l", "d", "!">>

Text_hello == <<"h", "e", "l", "l", "o", " ", " ", " ", "w", "o", "r", "l", "d", "!">>

Texts == {Text_Hello, Text_hello}

\* The text the requests of a run ask for.
RequestTexts == {Text_hello}

\* The characters of the model's texts and keys.
Alphabet ==
    {"h", "e", "l", "o", "w", "r", "d", "H", "W", "_", ",", "!", "-", " ", "\t", "\n"}

\* \s
Whitespace == {" ", "\t", "\n"}

\* \w : alphanumeric or underscore
WordChars == {"h", "e", "l", "o", "w", "r", "d", "H", "W", "_"}

\* \W
NonWordChars == Alphabet \ WordChars

\* str.lower()
lower(s) ==
    [i \in 1..Len(s) |-> CASE s[i] = "H" -> "h" [] s[i] = "W" -> "w" [] OTHER -> s[i]]

RECURSIVE drop_while(_, _)
drop_while(class, s) ==
    IF s # <<>> /\ Head(s) \in class THEN drop_while(class, Tail(s)) ELSE s

RECURSIVE drop_while_end(_, _)
drop_while_end(class, s) ==
    IF s # <<>> /\ s[Len(s)] \in class
    THEN drop_while_end(class, SubSeq(s, 1, Len(s) - 1))
    ELSE s

\* str.strip()
strip(s) == drop_while_end(Whitespace, drop_while(Whitespace, s))

\* re.sub(r'<class>+', repl, s): every maximal run of characters of the class
\* becomes one repl.
RECURSIVE re_sub_runs(_, _, _)
re_sub_runs(class, repl, s) ==
    IF s = <<>> THEN <<>>
    ELSE IF Head(s) \in class
         THEN <<repl>> \o re_sub_runs(class, repl, drop_while(class, Tail(s)))
         ELSE <<Head(s)>> \o re_sub_runs(class, repl, Tail(s))

\* A variant of clean_text that keeps the letters' case.
clean_text_case_kept(text) ==
    re_sub_runs(NonWordChars, "-", re_sub_runs(Whitespace, "_", strip(text)))

\* lines 25-30 of cache_key
clean_text(text) ==
    re_sub_runs(NonWordChars, "-", re_sub_runs(Whitespace, "_", strip(lower(text))))

(***************************************************************************)
(* Synthesizer configurations (SynthesizerConfig).                         *)
(***************************************************************************)
Config_Azure ==
    [type |-> "synthesizer_azure", voice_name |-> "en-US-AriaNeural", voice_id |-> "",
     audio_encoding |-> "linear16", sampling_rate |-> 8000,
     should_encode_as_wav |-> FALSE]

Config_Eleven ==
    [type |-> "synthesizer_eleven_labs", voice_name |-> "", voice_id |-> "",
     audio_encoding |-> "mulaw", sampling_rate |-> 8000,
     should_encode_as_wav |-> TRUE]

Configs == {Config_Azure, Config_Eleven}

get_voice_id(synthesizer_config) ==
    LET voice ==
            IF synthesizer_config.type \in {"synthesizer_azure", "synthesizer_google"}
            THEN synthesizer_config.voice_name
            ELSE IF synthesizer_config.type \in
                        {"synthesizer_eleven_labs", "synthesizer_play_ht", "synthesizer_coqui"}
                 THEN synthesizer_config.voice_id
                 ELSE ""
    IN  IF voice # "" THEN voice ELSE synthesizer_config.type

\* hashlib.md5(...).hexdigest()[:8], idealised as a hash without collisions:
\* the digest stands for its input.
md5_prefix(cleaned_text, config_text) == <<cleaned_text, config_text>>

\* The key is the tuple of the parts the f-string joins; config_text, the
\* config's json(), is the config itself.
cache_key(text, synthesizer_config) ==
    LET config_text == synthesizer_config
        cleaned_text == clean_text(text)
        voice_id == get_voice_id(synthesizer_config)
        hash_value == md5_prefix(cleaned_text, config_text)
    IN  [type |-> synthesizer_config.type,
         voice |-> voice_id,
         audio_encoding |-> synthesizer_config.audio_encoding,
         sampling_rate |-> synthesizer_config.sampling_rate,
         text |-> Take(cleaned_text, KEY_TEXT_LEN),
         hash |-> hash_value]

\* cache_key over the model's texts and configurations, computed once.
KeyTable == [t \in Texts, c \in Configs |-> cache_key(t, c)]

Keys == {KeyTable[t, c] : t \in Texts, c \in Configs}

(***************************************************************************)
(* Chunk records (SynthesisResult.ChunkResult) and replay.                 *)
(***************************************************************************)
ChunkResult(chunk, is_last_chunk) == [chunk |-> chunk, is_last_chunk |-> is_last_chunk]

\* encode_as_wav(chunk, synthesizer_config): the chunk framed in a WAV container.
encode_as_wav(chunk) == WavHeader \o chunk

\* create_synthesis_result_from_bytes picks the transform from should_encode_as_wav.
chunk_transform(wav, chunk) == IF wav THEN encode_as_wav(chunk) ELSE chunk

\* A variant of chunk_generator that yields one record, empty and final, for
\* an empty buffer.
chunk_generator_never_silent(output_bytes, chunk_size, wav) ==
    LET n == (Len(output_bytes) + chunk_size - 1) \div chunk_size
    IN  IF n = 0
        THEN <<ChunkResult(chunk_transform(wav, <<>>), TRUE)>>
        ELSE [k \in 1..n |->
                 LET i == (k - 1) * chunk_size
                 IN  IF i + chunk_size > Len(output_bytes)
                     THEN ChunkResult(chunk_transform(wav, Drop(output_bytes, i)), TRUE)
                     ELSE ChunkResult(
                              chunk_transform(wav,
                                              SubSeq(output_bytes, i + 1, i + chunk_size)),
                              FALSE)]

\* A variant of chunk_generator that stops before a last, shorter slice.
chunk_generator_whole_slices(output_bytes, chunk_size, wav) ==
    LET n == Len(output_bytes) \div chunk_size
    IN  [k \in 1..n |->
            LET i == (k - 1) * chunk_size
            IN  ChunkResult(
                    chunk_transform(wav, SubSeq(output_bytes, i + 1, i + chunk_size)),
                    i + chunk_size >= Len(output_bytes))]

\* The records chunk_generator(output_bytes) yields, in order: one per
\* i in range(0, len(output_bytes), chunk_size).
chunk_generator(output_bytes, chunk_size, wav) ==
    LET n == (Len(output_bytes) + chunk_size - 1) \div chunk_size
    IN  [k \in 1..n |->
            LET i == (k - 1) * chunk_size
            IN  IF i + chunk_size > Len(output_bytes)
                THEN ChunkResult(chunk_transform(wav, Drop(output_bytes, i)), TRUE)
                ELSE ChunkResult(
                         chunk_transform(wav, SubSeq(output_bytes, i + 1, i + chunk_size)),
                         FALSE)]

(***************************************************************************)
(* The backend synthesizer is opaque.                                      *)
(***************************************************************************)
\* The streams a backend's create_speech may return, each what its
\* chunk_generator yields when pulled to its end: no record at all, or chunks
\* that start with a WAV header followed by a last, short one, flagged final.
BackendStreams ==
    {[k \in 1..n |-> IF k < n
                     THEN ChunkResult(WavHeader \o <<7>>, FALSE)
                     ELSE ChunkResult(<<5, 6>>, TRUE)] : n \in 0..MaxChunks}

(***************************************************************************)
(* State.                                                                  *)
(*   store   the redis store: key -> bytes, None where the key is absent    *)
(*   config  inner_synthesizer's synthesizer_config, which its owner may    *)
(*           change at any time                                             *)
(*   req     per create_speech request: where the call is (pc), its         *)
(*           arguments, the generator behind the returned result (gen, the  *)
(*           records it has yielded, and for a backend's generator the      *)
(*           stream it yields when pulled to its end), and the              *)
(*           AsyncGeneratorWrapper's fields (all_bytes, remove_wav_header)   *)
(*   obs     per request, what an observer of the run has seen: the records *)
(*           the consumer received, how its last operation ended, and the   *)
(*           calls made to when_finished, store.set and the backend         *)
(*   env     how many store calls and backend calls have failed, how often  *)
(*           the configuration has changed, how often the store has been    *)
(*           read (exists, get), and how many calls have been passed        *)
(*           through to the backend                                         *)
(***************************************************************************)
VARIABLES store, config, req, obs, env

vars == <<store, config, req, obs, env>>

IdleRequest ==
    [pc |-> "idle", text |-> <<>>, chunk_size |-> 1, gen |-> "none", yielded |-> <<>>,
     stream |-> <<>>,
     output_bytes |-> None, transform_wav |-> FALSE,
     all_bytes |-> None, remove_wav_header |-> FALSE]

NothingObserved ==
    [delivered |-> <<>>, op |-> "", last |-> "", ops |-> 0, tee_pulls |-> 0, source_pulls |-> 0,
     when_finished_calls |-> 0, set_calls |-> <<>>, backend_calls |-> 0,
     exists |-> FALSE, got |-> None, aclose_calls |-> 0, source_closes |-> 0,
     key_at_call |-> None, backend_failed |-> FALSE]

EmptyStore == [k \in Keys |-> None]

\* create_speech may be called for r with this text: it has not been, and has
\* been, with this text, for the requests before it.
callable(r, text) ==
    /\ req[r].pc = "idle"
    /\ \A q \in StartsBefore[r] : req[q].pc # "idle" /\ req[q].text = text

env_events == env.store_faults + env.backend_faults + env.config_changes

store_may_fail == env_events < MaxEnvEvents

backend_may_fail == env_events < MaxEnvEvents

config_may_change == env_events < MaxEnvEvents

store_fault == [env EXCEPT !.store_faults = @ + 1]

\* exists(key) alone, and exists(key) followed by get(key).
store_read(e, calls) == [e EXCEPT !.store_reads = @ + calls]

backend_fault == [env EXCEPT !.backend_faults = @ + 1]

\* The key an earlier run may have left an entry at.
PreloadedKey == KeyTable[Text_hello, Config_Azure]

RECURSIVE SumOps(_, _)
SumOps(o, rs) ==
    IF rs = {} THEN 0
    ELSE LET r == CHOOSE x \in rs : TRUE IN o[r].ops + SumOps(o, rs \ {r})

\* Operations of the callers so far: pulls and closes, over all requests, and
\* calls of the pass-through methods.
TotalOps == SumOps(obs, Requests) + env.pass_through_calls

Init ==
    /\ \/ store = EmptyStore
       \/ \E b \in Buffers : store = [EmptyStore EXCEPT ![PreloadedKey] = b]
    /\ config = Config_Azure
    /\ req = [r \in Requests |-> IdleRequest]
    /\ obs = [r \in Requests |-> NothingObserved]
    /\ env = [store_faults |-> 0, backend_faults |-> 0, config_changes |-> 0,
              store_reads |-> 0, pass_through_calls |-> 0]

(***************************************************************************)
(* CachingSynthesizer.create_speech, up to its await of the backend.       *)
(***************************************************************************)
\* A variant of create_speech_hit that goes on to the backend although the
\* replayed result was built.
create_speech_hit_calls_backend(r, text, chunk_size) ==
    LET key == KeyTable[text, config]
    IN  /\ callable(r, text)
        /\ store[key] # None
        /\ req' = [req EXCEPT ![r] = [@ EXCEPT !.pc = "awaiting_backend", !.text = text]]
        /\ obs' = [obs EXCEPT ![r] =
                      [@ EXCEPT !.exists = TRUE, !.got = store[key],
                                !.key_at_call = key,
                                !.backend_calls = @ + 1]]
        /\ env' = store_read(env, 2)
        /\ UNCHANGED <<store, config>>

\* redisClient.exists(key) is true and redisClient.get(key) returns the entry:
\* the result is the replay of the bytes, and "if not result" is skipped.
create_speech_hit(r, text, chunk_size) ==
    LET key == KeyTable[text, config]
    IN  /\ callable(r, text)
        /\ store[key] # None
        /\ req' = [req EXCEPT ![r] =
                      [@ EXCEPT !.pc = "replay", !.text = text, !.chunk_size = chunk_size,
                                !.gen = "open", !.output_bytes = store[key],
                                !.transform_wav = config.should_encode_as_wav]]
        /\ obs' = [obs EXCEPT ![r] =
                      [@ EXCEPT !.exists = TRUE, !.got = store[key],
                                !.key_at_call = key]]
        /\ env' = store_read(env, 2)
        /\ UNCHANGED <<store, config>>

\* exists(key) is true, and the entry is gone when get(key) runs: get returns
\* None, create_synthesis_result_from_bytes(None, ...) still builds a result
\* (its generator has not started), and "if not result" is skipped.
create_speech_get_none(r, text, chunk_size) ==
    LET key == KeyTable[text, config]
    IN  /\ callable(r, text)
        /\ store[key] # None
        /\ store_may_fail
        /\ env' = store_read(store_fault, 2)
        /\ store' = [store EXCEPT ![key] = None]
        /\ req' = [req EXCEPT ![r] =
                      [@ EXCEPT !.pc = "replay", !.text = text, !.chunk_size = chunk_size,
                                !.gen = "open", !.output_bytes = None,
                                !.transform_wav = config.should_encode_as_wav]]
        /\ obs' = [obs EXCEPT ![r] =
                      [@ EXCEPT !.exists = TRUE, !.got = None, !.key_at_call = key]]
        /\ UNCHANGED config

\* exists(key) is true and get(key) raises: create_speech raises.
create_speech_get_raises(r, text, chunk_size) ==
    LET key == KeyTable[text, config]
    IN  /\ callable(r, text)
        /\ store[key] # None
        /\ store_may_fail
        /\ env' = store_read(store_fault, 2)
        /\ req' = [req EXCEPT ![r] =
                      [@ EXCEPT !.pc = "raised", !.text = text]]
        /\ obs' = [obs EXCEPT ![r] =
                      [@ EXCEPT !.exists = TRUE, !.last = "StoreError",
                                !.key_at_call = key]]
        /\ UNCHANGED <<store, config>>

\* exists(key) is false: the backend's create_speech is called and awaited.
create_speech_miss(r, text, chunk_size) ==
    LET key == KeyTable[text, config]
    IN  /\ callable(r, text)
        /\ store[key] = None
        /\ req' = [req EXCEPT ![r] =
                      [@ EXCEPT !.pc = "awaiting_backend", !.text = text]]
        /\ obs' = [obs EXCEPT ![r] =
                      [@ EXCEPT !.backend_calls = @ + 1, !.key_at_call = key]]
        /\ env' = store_read(env, 1)
        /\ UNCHANGED <<store, config>>

\* The backend returns its result: its chunk_generator is wrapped in an
\* AsyncGeneratorWrapper, remove_wav_header read from the config as it is now.
create_speech_wrap(r, stream) ==
    /\ req[r].pc = "awaiting_backend"
    /\ req' = [req EXCEPT ![r] =
                  [@ EXCEPT !.pc = "live", !.gen = "open", !.stream = stream,
                            !.all_bytes = <<>>,
                            !.remove_wav_header = config.should_encode_as_wav]]
    /\ UNCHANGED <<store, config, obs, env>>

\* The backend's create_speech raises: create_speech raises.
create_speech_backend_raises(r) ==
    /\ req[r].pc = "awaiting_backend"
    /\ backend_may_fail
    /\ env' = backend_fault
    /\ req' = [req EXCEPT ![r] = [@ EXCEPT !.pc = "raised"]]
    /\ obs' = [obs EXCEPT ![r] =
                  [@ EXCEPT !.last = "BackendError", !.backend_failed = TRUE]]
    /\ UNCHANGED <<store, config>>

(***************************************************************************)
(* AsyncGeneratorWrapper.                                                  *)
(***************************************************************************)
\* A variant of captured that keeps the header.
captured_keeps_header(chunk, remove_wav_header) == chunk

\* The bytes __anext__ adds to all_bytes for one truthy chunk.
captured(chunk, remove_wav_header) ==
    IF remove_wav_header THEN Drop(chunk, WAV_HEADER_LEN) ELSE chunk

\* A variant of when_finished that writes under the key create_speech computed
\* for its lookup.
when_finished_key_at_call(r, set_ok) ==
    LET key == obs[r].key_at_call
        all_bytes == req[r].all_bytes
    IN  IF all_bytes = None
        THEN [raised |-> "TypeError", store |-> store, set_calls |-> <<>>]
        ELSE IF set_ok
             THEN [raised |-> "",
                   store |-> [store EXCEPT ![key] = all_bytes],
                   set_calls |-> <<[key |-> key, value |-> all_bytes, ok |-> TRUE]>>]
             ELSE [raised |-> "StoreError",
                   store |-> store,
                   set_calls |-> <<[key |-> key, value |-> all_bytes, ok |-> FALSE]>>]

\* The when_finished lambda of create_speech, called with self.all_bytes:
\* the key is computed from the config as it is now, bytes(None) raises
\* TypeError before store.set is called, and store.set works (set_ok) or raises.
when_finished(r, set_ok) ==
    LET key == KeyTable[req[r].text, config]
        all_bytes == req[r].all_bytes
    IN  IF all_bytes = None
        THEN [raised |-> "TypeError", store |-> store, set_calls |-> <<>>]
        ELSE IF set_ok
             THEN [raised |-> "",
                   store |-> [store EXCEPT ![key] = all_bytes],
                   set_calls |-> <<[key |-> key, value |-> all_bytes, ok |-> TRUE]>>]
             ELSE [raised |-> "StoreError",
                   store |-> store,
                   set_calls |-> <<[key |-> key, value |-> all_bytes, ok |-> FALSE]>>]

\* What the generator's state is after an __anext__ that raised
\* StopAsyncIteration: an open generator has run to its end.
after_stop(gen) == IF gen = "open" THEN "exhausted" ELSE gen

\* A variant of forwarded that returns the chunk as it was added to all_bytes.
forwarded_as_captured(chunk_result, remove_wav_header) ==
    ChunkResult(captured(chunk_result.chunk, remove_wav_header),
                chunk_result.is_last_chunk)

\* What __anext__ returns for the chunk_result it pulled.
forwarded(chunk_result, remove_wav_header) == chunk_result

\* __anext__, the source yielding its next chunk_result: it is added to
\* all_bytes when truthy ("+=" on None raises TypeError) and returned as it is.
tee_anext_yield(r) ==
    /\ req[r].pc = "live"
    /\ TotalOps < MaxOps
    /\ req[r].gen = "open"
    /\ Len(req[r].yielded) < Len(req[r].stream)
    /\ LET chunk_result == req[r].stream[Len(req[r].yielded) + 1]
           truthy == chunk_result.chunk # <<>>
           type_error == truthy /\ req[r].all_bytes = None
       IN  /\ req' = [req EXCEPT ![r] =
                         [@ EXCEPT !.yielded = Append(@, chunk_result),
                                   !.all_bytes =
                                       IF truthy /\ ~type_error
                                       THEN @ \o captured(chunk_result.chunk,
                                                          req[r].remove_wav_header)
                                       ELSE @]]
           /\ obs' = [obs EXCEPT ![r] =
                         [@ EXCEPT !.ops = @ + 1, !.tee_pulls = @ + 1,
                                   !.source_pulls = @ + 1,
                                   !.op = "anext",
                                   !.delivered =
                                       IF type_error THEN @
                                       ELSE Append(@, forwarded(chunk_result,
                                                                req[r].remove_wav_header)),
                                   !.last = IF type_error THEN "TypeError" ELSE "chunk"]]
    /\ UNCHANGED <<store, config, env>>

\* __anext__, the source raising an error of the backend: "except
\* StopAsyncIteration" does not catch it, and the generator is finished.
tee_anext_source_raises(r) ==
    /\ req[r].pc = "live"
    /\ TotalOps < MaxOps
    /\ req[r].gen = "open"
    /\ backend_may_fail
    /\ env' = backend_fault
    /\ req' = [req EXCEPT ![r] = [@ EXCEPT !.gen = "failed"]]
    /\ obs' = [obs EXCEPT ![r] =
                  [@ EXCEPT !.ops = @ + 1, !.tee_pulls = @ + 1, !.source_pulls = @ + 1,
                            !.op = "anext", !.last = "BackendError",
                            !.backend_failed = TRUE]]
    /\ UNCHANGED <<store, config>>

\* __anext__, the source raising StopAsyncIteration (it has run to its end, or
\* was finished before): when_finished is called, all_bytes is set to None when
\* it returns, and StopAsyncIteration is raised again; what when_finished
\* raises replaces it.
tee_anext_stop(r, set_ok) ==
    /\ req[r].pc = "live"
    /\ TotalOps < MaxOps
    /\ req[r].gen = "open" => Len(req[r].yielded) = Len(req[r].stream)
    /\ set_ok \/ (store_may_fail /\ req[r].all_bytes # None)
    /\ env' = IF set_ok THEN env ELSE store_fault
    /\ LET wf == when_finished(r, set_ok)
       IN  /\ store' = wf.store
           /\ req' = [req EXCEPT ![r] =
                         [@ EXCEPT !.gen = after_stop(@),
                                   !.all_bytes = IF wf.raised = "" THEN None ELSE @]]
           /\ obs' = [obs EXCEPT ![r] =
                         [@ EXCEPT !.ops = @ + 1, !.tee_pulls = @ + 1,
                                   !.source_pulls = @ + 1,
                                   !.op = "anext",
                                   !.when_finished_calls = @ + 1,
                                   !.set_calls = @ \o wf.set_calls,
                                   !.last = IF wf.raised = ""
                                            THEN "StopAsyncIteration"
                                            ELSE wf.raised]]
    /\ UNCHANGED config

\* A variant of tee_aclose that closes the source without calling
\* when_finished.
tee_aclose_without_flush(r, set_ok) ==
    /\ req[r].pc = "live"
    /\ TotalOps < MaxOps
    /\ set_ok
    /\ req' = [req EXCEPT ![r] = [@ EXCEPT !.gen = "closed", !.all_bytes = None]]
    /\ obs' = [obs EXCEPT ![r] =
                  [@ EXCEPT !.ops = @ + 1, !.op = "aclose", !.aclose_calls = @ + 1,
                            !.source_closes = @ + 1, !.last = "returned"]]
    /\ UNCHANGED <<store, config, env>>

\* A variant of tee_aclose that closes the source generator before it calls
\* when_finished.
tee_aclose_closes_first(r, set_ok) ==
    /\ req[r].pc = "live"
    /\ TotalOps < MaxOps
    /\ set_ok \/ (store_may_fail /\ req[r].all_bytes # None)
    /\ env' = IF set_ok THEN env ELSE store_fault
    /\ LET wf == when_finished(r, set_ok)
       IN  /\ store' = wf.store
           /\ req' = [req EXCEPT ![r] =
                         [@ EXCEPT !.gen = "closed",
                                   !.all_bytes = IF wf.raised = "" THEN None ELSE @]]
           /\ obs' = [obs EXCEPT ![r] =
                         [@ EXCEPT !.ops = @ + 1,
                                   !.op = "aclose",
                                   !.aclose_calls = @ + 1,
                                   !.when_finished_calls = @ + 1,
                                   !.set_calls = @ \o wf.set_calls,
                                   !.source_closes = @ + 1,
                                   !.last = IF wf.raised = "" THEN "returned" ELSE wf.raised]]
    /\ UNCHANGED config

\* aclose: when_finished is called, then all_bytes is set to None and the
\* source generator closed; when when_finished raises, aclose raises and
\* neither happens.
tee_aclose(r, set_ok) ==
    /\ req[r].pc = "live"
    /\ TotalOps < MaxOps
    /\ set_ok \/ (store_may_fail /\ req[r].all_bytes # None)
    /\ env' = IF set_ok THEN env ELSE store_fault
    /\ LET wf == when_finished(r, set_ok)
       IN  /\ store' = wf.store
           /\ req' = [req EXCEPT ![r] =
                         [@ EXCEPT !.gen = IF wf.raised = "" THEN "closed" ELSE @,
                                   !.all_bytes = IF wf.raised = "" THEN None ELSE @]]
           /\ obs' = [obs EXCEPT ![r] =
                         [@ EXCEPT !.ops = @ + 1,
                                   !.op = "aclose",
                                   !.aclose_calls = @ + 1,
                                   !.when_finished_calls = @ + 1,
                                   !.set_calls = @ \o wf.set_calls,
                                   !.source_closes =
                                       IF wf.raised = "" THEN @ + 1 ELSE @,
                                   !.last = IF wf.raised = "" THEN "returned" ELSE wf.raised]]
    /\ UNCHANGED config

(***************************************************************************)
(* The generator of a replayed result (chunk_generator of                  *)
(* create_synthesis_result_from_bytes), pulled and closed by the consumer. *)
(***************************************************************************)
\* __anext__ of chunk_generator(output_bytes): len(None) raises TypeError.
replay_anext(r) ==
    /\ req[r].pc = "replay"
    /\ TotalOps < MaxOps
    /\ LET n == Len(req[r].yielded)
           records == chunk_generator(req[r].output_bytes, req[r].chunk_size,
                                      req[r].transform_wav)
       IN  IF req[r].gen = "open" /\ req[r].output_bytes = None
           THEN /\ req' = [req EXCEPT ![r] = [@ EXCEPT !.gen = "failed"]]
                /\ obs' = [obs EXCEPT ![r] =
                              [@ EXCEPT !.ops = @ + 1, !.op = "anext", !.last = "TypeError"]]
           ELSE IF req[r].gen = "open" /\ n < Len(records)
                THEN /\ req' = [req EXCEPT ![r] =
                                   [@ EXCEPT !.yielded = Append(@, records[n + 1])]]
                     /\ obs' = [obs EXCEPT ![r] =
                                   [@ EXCEPT !.ops = @ + 1, !.op = "anext", !.last = "chunk",
                                             !.delivered = Append(@, records[n + 1])]]
                ELSE /\ req' = [req EXCEPT ![r] = [@ EXCEPT !.gen = after_stop(@)]]
                     /\ obs' = [obs EXCEPT ![r] =
                                   [@ EXCEPT !.ops = @ + 1, !.op = "anext",
                                             !.last = "StopAsyncIteration"]]
    /\ UNCHANGED <<store, config, env>>

\* aclose of chunk_generator(output_bytes).
replay_aclose(r) ==
    /\ req[r].pc = "replay"
    /\ TotalOps < MaxOps
    /\ req' = [req EXCEPT ![r] = [@ EXCEPT !.gen = "closed"]]
    /\ obs' = [obs EXCEPT ![r] = [@ EXCEPT !.ops = @ + 1, !.op = "aclose", !.last = "returned"]]
    /\ UNCHANGED <<store, config, env>>

(***************************************************************************)
(* The pass-through methods of CachingSynthesizer: each returns what the    *)
(* same method of inner_synthesizer returns.                                *)
(***************************************************************************)
PassThroughOps ==
    {"filler_audios", "get_synthesizer_config", "get_typing_noise_filler_audio",
     "set_filler_audios", "get_phrase_filler_audios", "ready_synthesizer",
     "get_message_cutoff_from_total_response_length",
     "get_message_cutoff_from_voice_speed", "create_synthesis_result_from_wav"}

\* A variant of pass_through that asks the store before it asks the backend.
pass_through_consulting_store(method) ==
    /\ method \in PassThroughOps
    /\ TotalOps < MaxOps
    /\ env' = [env EXCEPT !.pass_through_calls = @ + 1, !.store_reads = @ + 1]
    /\ UNCHANGED <<store, config, req, obs>>

\* Each pass-through method calls the method of the same name of
\* inner_synthesizer and nothing else.
pass_through(method) ==
    /\ method \in PassThroughOps
    /\ TotalOps < MaxOps
    /\ env' = [env EXCEPT !.pass_through_calls = @ + 1]
    /\ UNCHANGED <<store, config, req, obs>>

(***************************************************************************)
(* The owner of the backend changes its configuration.                      *)
(***************************************************************************)
set_config(c) ==
    /\ c # config
    /\ config_may_change
    /\ env' = [env EXCEPT !.config_changes = @ + 1]
    /\ config' = c
    /\ UNCHANGED <<store, req, obs>>

Next ==
    \/ \E r \in Requests, text \in RequestTexts, chunk_size \in ChunkSizes :
          \/ create_speech_hit(r, text, chunk_size)
          \/ create_speech_get_none(r, text, chunk_size)
          \/ create_speech_get_raises(r, text, chunk_size)
          \/ create_speech_miss(r, text, chunk_size)
    \/ \E r \in Requests, stream \in BackendStreams : create_speech_wrap(r, stream)
    \/ \E r \in Requests :
          \/ create_speech_backend_raises(r)
          \/ tee_anext_yield(r)
          \/ tee_anext_source_raises(r)
          \/ replay_anext(r)
          \/ replay_aclose(r)
    \/ \E r \in Requests, set_ok \in BOOLEAN :
          \/ tee_anext_stop(r, set_ok)
          \/ tee_aclose(r, set_ok)
    \/ \E method \in PassThroughOps : pass_through(method)
    \/ \E c \in Configs : set_config(c)

Spec == Init /\ [][Next]_vars

(***************************************************************************)
(* cache_key alone: create_speech up to the key it computes, for texts     *)
(* that mix letters of both cases, blanks and punctuation.                 *)
(***************************************************************************)
KeyChars == {"H", "h", " ", ","}

RECURSIVE TextsOfLen(_)
TextsOfLen(n) ==
    IF n = 0 THEN {<<>>}
    ELSE {Append(t, c) : t \in TextsOfLen(n - 1), c \in KeyChars}

KeyTexts == {Text_Hello, Text_hello} \cup UNION {TextsOfLen(n) : n \in 0..MaxTextLen}

\* key = cache_key(message.text, self.inner_synthesizer.get_synthesizer_config())
create_speech_key(r, text) ==
    /\ req[r].pc = "idle"
    /\ \A q \in StartsBefore[r] : req[q].pc # "idle"
    /\ req' = [req EXCEPT ![r] = [@ EXCEPT !.pc = "keyed", !.text = text]]
    /\ obs' = [obs EXCEPT ![r] = [@ EXCEPT !.key_at_call = cache_key(text, config)]]
    /\ UNCHANGED <<store, config, env>>

KeyInit ==
    /\ store = EmptyStore
    /\ config \in Configs
    /\ req = [r \in Requests |-> IdleRequest]
    /\ obs = [r \in Requests |-> NothingObserved]
    /\ env = [store_faults |-> 0, backend_faults |-> 0, config_changes |-> 0,
              store_reads |-> 0, pass_through_calls |-> 0]

KeyNext == \E r \in Requests, text \in KeyTexts : create_speech_key(r, text)

KeySpec == KeyInit /\ [][KeyNext]_vars

(***************************************************************************)
(* Properties.                                                             *)
(***************************************************************************)
IsPrefix(s, t) == Len(s) <= Len(t) /\ SubSeq(t, 1, Len(s)) = s

\* The payloads of the records, in order, each without its first 44 bytes
\* when headerless is set.
RECURSIVE Payload(_, _)
Payload(records, headerless) ==
    IF records = <<>> THEN <<>>
    ELSE (IF headerless
          THEN SubSeq(Head(records).chunk, 44 + 1, Len(Head(records).chunk))
          ELSE Head(records).chunk) \o Payload(Tail(records), headerless)

Finals(records) == {k \in 1..Len(records) : records[k].is_last_chunk}

Live(r) == req[r].pc = "live"

Replayed(r) == req[r].pc = "replay"

\* C1: for every non-empty byte buffer and every chunk size, the records replay
\* produces hold exactly one record flagged final, and it is the last one.
C1_ReplayHasOneFinalRecordLast ==
    \A r \in Requests :
        (Replayed(r) /\ req[r].output_bytes # None /\ req[r].output_bytes # <<>>) =>
            LET records == chunk_generator(req[r].output_bytes, req[r].chunk_size,
                                           req[r].transform_wav)
            IN  Finals(records) = {Len(records)}

\* C2: when_finished is called at most once for one AsyncGeneratorWrapper,
\* whatever the consumer does.
C2_WhenFinishedAtMostOnce ==
    \A r \in Requests : obs[r].when_finished_calls <= 1

\* C3: for a request that misses the cache store.set is executed at most once,
\* and not before the consumer has pulled the stream to its end or closed it.
C3_SetAtMostOnceAfterConsumption ==
    \A r \in Requests :
        /\ Len(obs[r].set_calls) <= 1
        /\ obs[r].set_calls # <<>> =>
              /\ Live(r)
              /\ \/ obs[r].aclose_calls > 0
                 \/ req[r].gen # "open"

\* The part of C3 the code keeps: store.set is called only by a pull that finds
\* the source at its end or by aclose, and succeeds at most once per request.
SetSucceedsAtMostOnce ==
    \A r \in Requests :
        /\ Cardinality({i \in 1..Len(obs[r].set_calls) : obs[r].set_calls[i].ok}) <= 1
        /\ obs[r].set_calls # <<>> => Live(r) /\ obs[r].when_finished_calls > 0

\* C4: on a miss, the pull that signals exhaustion leaves in the store, at the
\* key of the request's text and the backend's configuration, the payloads of
\* all forwarded chunks in order, each without its first 44 bytes when the
\* stream was wrapped with should_encode_as_wav set.
C4_DrainedStreamIsStored ==
    [][\A r \in Requests :
          (/\ Live(r)
           /\ obs'[r].tee_pulls = obs[r].tee_pulls + 1
           /\ obs'[r].last = "StopAsyncIteration") =>
              store'[KeyTable[req[r].text, config]] =
                  Payload(obs[r].delivered, req[r].remove_wav_header)]_vars

C4_Witness ==
    \E r \in Requests :
        /\ Live(r)
        /\ obs[r].op = "anext"
        /\ obs[r].last = "StopAsyncIteration"
        /\ Len(obs[r].delivered) = 2
        /\ req[r].remove_wav_header
        /\ store[KeyTable[req[r].text, config]] = <<7>>

\* C5: when create_speech finds its key in the store, the backend's
\* create_speech is not called for the request, and what the call returns is
\* the replay of the bytes stored at the key.
C5_HitBypassesBackend ==
    \A r \in Requests :
        obs[r].exists =>
            /\ obs[r].backend_calls = 0
            /\ req[r].pc \in {"replay", "raised"}
            /\ (Replayed(r) /\ obs[r].got # None) =>
                  /\ req[r].output_bytes = obs[r].got
                  /\ IsPrefix(obs[r].delivered,
                              chunk_generator(obs[r].got, req[r].chunk_size,
                                              req[r].transform_wav))

C5_Witness ==
    \E r \in Requests :
        /\ Replayed(r)
        /\ obs[r].exists
        /\ obs[r].got = <<1, 2, 3>>
        /\ Len(obs[r].delivered) = 2
        /\ obs[r].backend_calls = 0

\* C6: every entry written to the store holds the entire payload of the
\* backend stream it was captured from (without the headers where they are
\* stripped), never a part of it.
C6_WrittenEntriesAreEntire ==
    \A r \in Requests :
        \A i \in 1..Len(obs[r].set_calls) :
            obs[r].set_calls[i].ok =>
                obs[r].set_calls[i].value =
                    Payload(req[r].stream, req[r].remove_wav_header)

C8_SetFailureIsHidden ==
    \A r \in Requests : Live(r) => obs[r].last # "StoreError"

\* C9: when exists(key) is true and get(key) fails or returns no value, the
\* request is treated as a miss: the backend's create_speech is called and the
\* request does not fail.
C9_GetFailureFallsBackToMiss ==
    \A r \in Requests :
        (obs[r].exists /\ obs[r].got = None) =>
            /\ obs[r].backend_calls = 1
            /\ ~Replayed(r)
            /\ ~(req[r].pc = "raised" /\ obs[r].last = "StoreError")

\* C10: the records the consumer receives from the wrapper are the records the
\* source has yielded, in the same order and unchanged, and every pull of the
\* wrapper is one pull of the source.
C10_TeeForwardsUnchanged ==
    \A r \in Requests :
        Live(r) =>
            /\ obs[r].delivered = req[r].yielded
            /\ IsPrefix(obs[r].delivered, req[r].stream)
            /\ obs[r].source_pulls = obs[r].tee_pulls

C10_Witness ==
    \E r \in Requests :
        /\ Live(r)
        /\ req[r].remove_wav_header
        /\ Len(obs[r].delivered) = 2
        /\ obs[r].tee_pulls = 3
        /\ obs[r].last = "StopAsyncIteration"

\* C11: for every byte buffer B and chunk size S >= 1, the payloads of the
\* records replay produces from B with chunk size S and no transform,
\* concatenated in order, are B, and every record but the last has a payload
\* of S bytes; a consumer that pulls the replay to its end has received B.
C11_ReplayRoundTrip ==
    \A r \in Requests :
        (Replayed(r) /\ req[r].output_bytes # None /\ ~req[r].transform_wav) =>
            LET B == req[r].output_bytes
                S == req[r].chunk_size
                records == chunk_generator(B, S, FALSE)
            IN  /\ S >= 1
                /\ Payload(records, FALSE) = B
                /\ \A k \in 1..(Len(records) - 1) : Len(records[k].chunk) = S
                /\ Len(records) >= 1 => Len(records[Len(records)].chunk) \in 1..S
                /\ IsPrefix(Payload(obs[r].delivered, FALSE), B)
                /\ req[r].gen = "exhausted" => Payload(obs[r].delivered, FALSE) = B

C11_Witness ==
    \E r \in Requests :
        /\ Replayed(r)
        /\ ~req[r].transform_wav
        /\ req[r].output_bytes = <<1, 2, 3>>
        /\ req[r].chunk_size = 2
        /\ req[r].gen = "exhausted"
        /\ obs[r].delivered = <<ChunkResult(<<1, 2>>, FALSE), ChunkResult(<<3>>, TRUE)>>

\* The letter a letter is in lower case, every other character itself.
CaseFold(c) == CASE c = "H" -> "h" [] c = "W" -> "w" [] OTHER -> c

\* The positions of a text that are not whitespace.
Inked(text) == {i \in 1..Len(text) : text[i] \notin Whitespace}

\* The words of a text, case folded, with one blank between two words: what
\* is left of the text when letter case, the length of its whitespace runs
\* and the whitespace at its ends are ignored.
RECURSIVE WordsFrom(_, _)
WordsFrom(text, i) ==
    IF i > Len(text) THEN <<>>
    ELSE IF i \in Inked(text)
         THEN <<CaseFold(text[i])>> \o WordsFrom(text, i + 1)
         ELSE IF /\ \E j \in Inked(text) : j < i
                 /\ \E j \in Inked(text) : j > i
                 /\ i - 1 \in Inked(text)
              THEN <<" ">> \o WordsFrom(text, i + 1)
              ELSE WordsFrom(text, i + 1)

Keyed(r) == req[r].pc = "keyed"

\* C12 as stated: with one fixed configuration, cache_key of "Hello, World!"
\* and cache_key of "hello   world!" are the identical key.
C12_HelloWorldSameKey ==
    \A r, q \in Requests :
        (/\ Keyed(r) /\ Keyed(q)
         /\ req[r].text = Text_Hello
         /\ req[q].text = Text_hello) =>
            obs[r].key_at_call = obs[q].key_at_call

\* C12, amended: with one fixed configuration, two texts that differ only in
\* letter case, in the length of their whitespace runs and in whitespace at
\* their ends get the identical key; "Hello, World!" and "hello   world!" get
\* different keys, the comma before the blank leaving a dash in front of the
\* underscore (hello-_world- and hello_world-).
C12_KeyIgnoresCaseAndSpacing ==
    \A r, q \in Requests :
        (Keyed(r) /\ Keyed(q)) =>
            /\ WordsFrom(req[r].text, 1) = WordsFrom(req[q].text, 1) =>
                   obs[r].key_at_call = obs[q].key_at_call
            /\ (req[r].text = Text_Hello /\ req[q].text = Text_hello) =>
                   /\ obs[r].key_at_call # obs[q].key_at_call
                   /\ obs[r].key_at_call.text =
                          <<"h", "e", "l", "l", "o", "-", "_", "w", "o", "r", "l", "d", "-">>
                   /\ obs[q].key_at_call.text =
                          <<"h", "e", "l", "l", "o", "_", "w", "o", "r", "l", "d", "-">>

C12_Witness ==
    /\ Keyed("r1") /\ Keyed("r2")
    /\ req["r1"].text = Text_Hello
    /\ req["r2"].text = Text_hello
    /\ obs["r1"].key_at_call # obs["r2"].key_at_call

\* C13: when the consumer calls aclose on the wrapper before the source is
\* exhausted, when_finished is called, once, with exactly the bytes accumulated
\* from the records pulled so far, and the source generator is closed only
\* after that: it is closed in the call when when_finished has returned, and
\* not closed when when_finished has raised.
C13_EarlyCloseFlushesThenCloses ==
    [][\A r \in Requests :
          (/\ Live(r)
           /\ req[r].gen = "open"
           /\ obs'[r].aclose_calls = obs[r].aclose_calls + 1) =>
              LET n == Len(obs'[r].set_calls)
                  returned == obs'[r].last = "returned"
              IN  /\ obs'[r].when_finished_calls = obs[r].when_finished_calls + 1
                  /\ n = Len(obs[r].set_calls) + 1
                  /\ obs'[r].set_calls[n].value =
                         Payload(obs[r].delivered, req[r].remove_wav_header)
                  /\ obs'[r].set_calls[n].ok = returned
                  /\ obs'[r].source_pulls = obs[r].source_pulls
                  /\ obs'[r].source_closes =
                         obs[r].source_closes + (IF returned THEN 1 ELSE 0)
                  /\ req'[r].gen = IF returned THEN "closed" ELSE "open"]_vars

C13_Witness ==
    \E r \in Requests :
        /\ Live(r)
        /\ req[r].remove_wav_header
        /\ req[r].gen = "closed"
        /\ Len(req[r].yielded) = 1
        /\ Len(req[r].stream) = 2
        /\ obs[r].when_finished_calls = 1
        /\ obs[r].aclose_calls = 1
        /\ obs[r].source_closes = 1
        /\ Len(obs[r].set_calls) = 1
        /\ obs[r].set_calls[1].value = <<7>>

\* C14: the key of the store.set made when a stream completes is computed from
\* the backend's configuration as it is at that moment, not as it was when
\* create_speech looked the text up: when the configuration has changed in
\* between, the accumulated bytes are written under the key of the changed
\* configuration and the entry at the key computed at call time is left as it
\* is.
C14_KeyDerivedAtCompletion ==
    [][\A r \in Requests :
          (/\ Live(r)
           /\ Len(obs'[r].set_calls) = Len(obs[r].set_calls) + 1) =>
              LET e == obs'[r].set_calls[Len(obs'[r].set_calls)]
                  now == cache_key(req[r].text, config)
                  at_call == obs[r].key_at_call
              IN  /\ e.key = now
                  /\ e.ok => store'[now] = e.value
                  /\ at_call # now => store'[at_call] = store[at_call]]_vars

C14_Witness ==
    \E r \in Requests :
        /\ Live(r)
        /\ env.config_changes = 1
        /\ Len(obs[r].set_calls) = 1
        /\ obs[r].set_calls[1].ok
        /\ obs[r].set_calls[1].key = cache_key(req[r].text, Config_Eleven)
        /\ obs[r].key_at_call = cache_key(req[r].text, Config_Azure)
        /\ store[obs[r].key_at_call] = None
        /\ store[obs[r].set_calls[1].key] = <<5, 6>>

\* r's stream has completed, by exhaustion or by an early close, with one
\* store.set that succeeded.
Completed(r) ==
    /\ Live(r)
    /\ req[r].gen \in {"exhausted", "closed"}
    /\ Len(obs[r].set_calls) = 1
    /\ obs[r].set_calls[1].ok

\* C15: when two requests for the same text and configuration both miss and
\* run concurrently against a backend that gives both the same stream, the
\* value at their key once both streams have completed does not depend on the
\* interleaving: it is what either of them wrote, whichever wrote last.
C15_RacingMissesSettle ==
    \A r, q \in Requests :
        (/\ r # q
         /\ env_events = 0
         /\ Completed(r) /\ Completed(q)
         /\ req[r].text = req[q].text
         /\ obs[r].key_at_call = obs[q].key_at_call
         /\ req[r].stream = req[q].stream
         /\ req[r].remove_wav_header = req[q].remove_wav_header) =>
            /\ obs[r].set_calls[1].key = obs[r].key_at_call
            /\ obs[q].set_calls[1].key = obs[r].key_at_call
            /\ store[obs[r].key_at_call] = obs[r].set_calls[1].value
            /\ store[obs[r].key_at_call] = obs[q].set_calls[1].value

\* The stream is an audio cut into consecutive chunks of S bytes, the last one
\* of 1 to S bytes, and only the last one flagged final.
CutInto(stream, S) ==
    \A k \in 1..Len(stream) :
        IF k < Len(stream)
        THEN Len(stream[k].chunk) = S /\ ~stream[k].is_last_chunk
        ELSE Len(stream[k].chunk) \in 1..S /\ stream[k].is_last_chunk

\* C16: when a request misses, the backend streams its audio in chunks of S
\* bytes with only the last flagged final and the consumer drains the stream,
\* a later request for the same text, configuration and chunk size S hits and
\* its replay yields the records the live stream yielded: the same payloads,
\* the same final flags, the same number of records.
C16_MissThenHitEquivalent ==
    \A r, q \in Requests :
        (/\ r # q
         /\ env_events = 0
         /\ Completed(r)
         /\ req[r].gen = "exhausted"
         /\ ~req[r].remove_wav_header
         /\ Replayed(q)
         /\ req[q].text = req[r].text
         /\ obs[q].key_at_call = obs[r].set_calls[1].key
         /\ obs[q].got = obs[r].set_calls[1].value
         /\ CutInto(req[r].stream, req[q].chunk_size)) =>
            /\ IsPrefix(obs[q].delivered, obs[r].delivered)
            /\ req[q].gen = "exhausted" => obs[q].delivered = obs[r].delivered

\* C17: when the backend fails for a request (its create_speech raises, or its
\* stream raises an error other than StopAsyncIteration in a pull), store.set
\* is never called for that request, whatever the consumer does afterwards.
C17_BackendFailureCachesNothing ==
    \A r \in Requests :
        obs[r].backend_failed =>
            /\ obs[r].set_calls = <<>>
            /\ obs[r].backend_calls = 1

\* C18: the replay of an empty stored buffer yields no record at all, so none
\* flagged final, and ends by StopAsyncIteration without an error: an empty
\* entry, such as a synthesis of no bytes leaves, is served as an empty stream,
\* without a call of the backend.
C18_EmptyEntryReplaysEmpty ==
    \A r \in Requests :
        (Replayed(r) /\ req[r].output_bytes = <<>>) =>
            /\ chunk_generator(<<>>, req[r].chunk_size, req[r].transform_wav) = <<>>
            /\ obs[r].delivered = <<>>
            /\ obs[r].backend_calls = 0
            /\ obs[r].op = "anext" =>
                  /\ obs[r].last = "StopAsyncIteration"
                  /\ req[r].gen \in {"exhausted", "closed"}
            /\ obs[r].op = "aclose" => obs[r].last = "returned"

C18_Witness ==
    \E r, q \in Requests :
        /\ Completed(r)
        /\ req[r].stream = <<>>
        /\ obs[r].set_calls[1].value = <<>>
        /\ Replayed(q)
        /\ obs[q].got = <<>>
        /\ obs[q].op = "anext"
        /\ obs[q].last = "StopAsyncIteration"
        /\ req[q].gen = "exhausted"
        /\ obs[q].delivered = <<>>

\* C19: every aclose of the wrapper closes the source generator, whatever
\* state the wrapper is in and whether or not when_finished raises, so the
\* source is not open once the consumer has called aclose.
C19_AcloseAlwaysClosesSource ==
    \A r \in Requests :
        Live(r) =>
            /\ obs[r].source_closes = obs[r].aclose_calls
            /\ obs[r].aclose_calls > 0 => req[r].gen # "open"

\* C20: the core changes the store only in the step that completes the stream
\* of a cache miss (the store.set of when_finished); a create_speech that
\* hits, the pulls and closes of a replayed stream and the pass-through
\* methods leave the store as it is, and the pass-through methods do not read
\* it (no exists, no get) nor touch any request.  An entry that vanishes
\* between exists and get is the store's doing, not the core's.
C20_StoreChangedOnlyByCompletion ==
    [][/\ (store' # store /\ env'.store_faults = env.store_faults) =>
              \E r \in Requests :
                 /\ Live(r)
                 /\ obs'[r].when_finished_calls = obs[r].when_finished_calls + 1
                 /\ Len(obs'[r].set_calls) = Len(obs[r].set_calls) + 1
                 /\ LET e == obs'[r].set_calls[Len(obs'[r].set_calls)]
                    IN  e.ok /\ store' = [store EXCEPT ![e.key] = e.value]
       /\ (\E r \in Requests : req[r].pc = "idle" /\ obs'[r].exists /\ obs'[r].got # None) =>
              store' = store
       /\ (\E r \in Requests : Replayed(r) /\ obs'[r].ops = obs[r].ops + 1) =>
              store' = store
       /\ env'.pass_through_calls # env.pass_through_calls =>
              /\ store' = store
              /\ env'.store_reads = env.store_reads
              /\ req' = req /\ obs' = obs /\ config' = config]_vars

C20_Witness ==
    \E r, q \in Requests :
        /\ Completed(r)
        /\ store[obs[r].set_calls[1].key] = obs[r].set_calls[1].value
        /\ Replayed(q)
        /\ obs[q].got = obs[r].set_calls[1].value
        /\ obs[q].ops = 1
        /\ env.pass_through_calls = 1
        /\ env.store_reads = 3

====
